---- MODULE Spec2Model ----
(***************************************************************************)
(* Model of the tool invocation pipeline of gpt5-search-mcp (src/index.ts): *)
(* the retry wrapper withRetry, the classification of remote failures into *)
(* HttpError, the response schema, extractResponseText and the handler     *)
(* that createTool registers for every entry of toolConfigs.               *)
(*                                                                         *)
(* JavaScript values are encoded as follows.                               *)
(*   - a number that may be undefined or NaN is a record [tag, n];         *)
(*   - an optional string is <<>> (undefined) or <<s>>;                    *)
(*   - a header value is a sequence of one-character strings, so that      *)
(*     parseInt can be computed character by character;                    *)
(*   - text is a TLA+ string, built with \o and ToString as the template   *)
(*     literals of the source build it.                                    *)
(***************************************************************************)
EXTENDS Integers, Sequences, FiniteSets, TLC

\* ------------------------------------------------------------------------
\* Bounds of the exploration
\* ------------------------------------------------------------------------

\* number of invocations the host may issue (handlers are independent tasks)
NumInv == 2

\* longest output list of a remote response
MaxOutputLen == 2

\* ------------------------------------------------------------------------
\* JavaScript values
\* ------------------------------------------------------------------------

Num(k) == [tag |-> "number", n |-> k]

NaN == [tag |-> "NaN", n |-> 0]

Undefined == [tag |-> "undefined", n |-> 0]

\* truthiness of a number-or-undefined value: 0, NaN and undefined are falsy
TruthyNum(v) == v.tag = "number" /\ v.n # 0

\* truthiness of an optional string: undefined and "" are falsy
TruthyStr(s) == s # <<>> /\ s[1] # ""

\* a || b on optional strings
OrStr(a, b) == IF TruthyStr(a) THEN a ELSE b

\* x * k on numbers: NaN stays NaN
TimesNum(v, k) == IF v.tag = "number" THEN Num(v.n * k) ELSE NaN

Digits == {"0", "1", "2", "3", "4", "5", "6", "7", "8", "9"}

DigitVal(c) ==
  CASE c = "0" -> 0 [] c = "1" -> 1 [] c = "2" -> 2 [] c = "3" -> 3
    [] c = "4" -> 4 [] c = "5" -> 5 [] c = "6" -> 6 [] c = "7" -> 7
    [] c = "8" -> 8 [] c = "9" -> 9

RECURSIVE SkipSpace(_)
SkipSpace(s) ==
  IF s # <<>> /\ s[1] = " " THEN SkipSpace(Tail(s)) ELSE s

\* the value of the longest prefix of digits of s, acc being the value so far
RECURSIVE DigitPrefix(_, _)
DigitPrefix(s, acc) ==
  IF s # <<>> /\ s[1] \in Digits
    THEN DigitPrefix(Tail(s), 10 * acc + DigitVal(s[1]))
    ELSE acc

\* parseInt(string) with no radix: leading blanks are skipped, a sign is
\* read, then the longest prefix of decimal digits; NaN when there is none
parseInt(str) ==
  LET s    == SkipSpace(str)
      neg  == s # <<>> /\ s[1] = "-"
      body == IF s # <<>> /\ s[1] \in {"-", "+"} THEN Tail(s) ELSE s
  IN  IF body = <<>> \/ body[1] \notin Digits
        THEN NaN
        ELSE Num((IF neg THEN -1 ELSE 1) * DigitPrefix(body, 0))

\* ------------------------------------------------------------------------
\* Failures of the remote call and their classification
\* ------------------------------------------------------------------------

\* opts of withRetry (the default argument; the handler passes none)
retries == 2

baseDelayMs == 300

\* the status the classifier falls back to (status || 500)
DefaultStatus == 500

insufficient_quota == "insufficient_quota"

\* mutant: a missing status is left as it is (no `|| 500`)
ClassifyNoDefault(error, call) ==
  IF error.isError /\ error.hasStatus
    THEN [kind         |-> "HttpError",
          message      |-> "OpenAI API error: " \o error.message,
          status       |-> error.status.n,
          retryAfterMs |-> IF error.retryAfter # <<>> /\ error.retryAfter[1] # <<>>
                             THEN TimesNum(parseInt(error.retryAfter[1]), 1000)
                             ELSE Undefined,
          errorType    |-> OrStr(error.bodyType, error.topType),
          errorCode    |-> OrStr(error.bodyCode, error.topCode),
          call         |-> call]
    ELSE [kind         |-> IF error.isError THEN "Error" ELSE "other",
          message      |-> error.message,
          status       |-> 0,
          retryAfterMs |-> Undefined,
          errorType    |-> <<>>,
          errorCode    |-> <<>>,
          call         |-> call]

\* What the callback given to withRetry throws when openai.responses.create
\* rejects with `error`, the rejection of remote call number `call`: an
\* HttpError for an Error with a status property, the rejection itself
\* otherwise.  `call` tells the error values of different calls apart.
Classify(error, call) ==
  IF error.isError /\ error.hasStatus
    THEN [kind         |-> "HttpError",
          message      |-> "OpenAI API error: " \o error.message,
          status       |-> IF TruthyNum(error.status) THEN error.status.n
                           ELSE DefaultStatus,
          retryAfterMs |-> IF error.retryAfter # <<>> /\ error.retryAfter[1] # <<>>
                             THEN TimesNum(parseInt(error.retryAfter[1]), 1000)
                             ELSE Undefined,
          errorType    |-> OrStr(error.bodyType, error.topType),
          errorCode    |-> OrStr(error.bodyCode, error.topCode),
          call         |-> call]
    ELSE [kind         |-> IF error.isError THEN "Error" ELSE "other",
          message      |-> error.message,
          status       |-> 0,
          retryAfterMs |-> Undefined,
          errorType    |-> <<>>,
          errorCode    |-> <<>>,
          call         |-> call]

isHttp(e) == e.kind = "HttpError"

\* isQuotaError of withRetry
isQuotaErrorRetry(e) ==
  isHttp(e) /\ (e.errorType = <<insufficient_quota>> \/ e.errorCode = <<insufficient_quota>>)

\* mutant: the quota check is missing
retriableNoQuotaCheck(e) ==
  isHttp(e) /\ (e.status = 429 \/ (e.status >= 500 /\ e.status <= 599))

\* mutant: the 5xx range has no upper end
retriableNoUpper(e) ==
  isHttp(e) /\ ~isQuotaErrorRetry(e) /\ (e.status = 429 \/ e.status >= 500)

\* mutant: every classified failure that is no quota failure is retried
retriableAnyStatus(e) == isHttp(e) /\ ~isQuotaErrorRetry(e)

\* retriable of withRetry
retriable(e) ==
  isHttp(e) /\ ~isQuotaErrorRetry(e)
    /\ (e.status = 429 \/ (e.status >= 500 /\ e.status <= 599))

\* mutant: the cap on the attempts is missing
rethrowsNoCap(e, att) == ~retriable(e)

\* the guard of `throw e` in withRetry, att being the incremented counter
rethrows(e, att) == ~retriable(e) \/ att > retries

\* mutant: the exponent is the attempt number
delayMsOffByOne(e, att) ==
  IF isHttp(e) /\ TruthyNum(e.retryAfterMs) THEN e.retryAfterMs.n
  ELSE baseDelayMs * 2 ^ att

\* (isHttp && e.retryAfterMs) || opts.baseDelayMs * Math.pow(2, attempt - 1)
delayMs(e, att) ==
  IF isHttp(e) /\ TruthyNum(e.retryAfterMs) THEN e.retryAfterMs.n
  ELSE baseDelayMs * 2 ^ (att - 1)

\* ------------------------------------------------------------------------
\* Response schema (zod) and text extraction
\* ------------------------------------------------------------------------

\* A content item of a raw message: its type, and its text when it has one.
\* An output item: its type, whether its other fields (id, status, role,
\* summary) are as the schema of its type wants them, and its content list
\* when it has one.  A response: null, or an object whose top-level fields
\* (id, object, created_at, status, model, usage) are well formed or not and
\* whose output list is present or not.

Text(t) == [type |-> "output_text", hasText |-> TRUE, text |-> t]

NoText == [type |-> "output_text", hasText |-> FALSE, text |-> ""]

Refusal == [type |-> "refusal", hasText |-> FALSE, text |-> ""]

Message(c) == [type |-> "message", wellFormed |-> TRUE, hasContent |-> TRUE, content |-> c]

Other(t) == [type |-> t, wellFormed |-> TRUE, hasContent |-> FALSE, content |-> <<>>]

\* GPT5OutputContent
GPT5OutputContent(c) == c.type = "output_text" /\ c.hasText

\* GPT5MessageOutput
GPT5MessageOutput(item) ==
  /\ item.type = "message"
  /\ item.wellFormed
  /\ item.hasContent
  /\ \A k \in 1..Len(item.content) : GPT5OutputContent(item.content[k])

\* GPT5ReasoningOutput
GPT5ReasoningOutput(item) == item.type = "reasoning" /\ item.wellFormed

\* GPT5WebSearchOutput
GPT5WebSearchOutput(item) == item.type = "web_search_call" /\ item.wellFormed

\* GPT5Output, the union of the three
GPT5Output(item) ==
  GPT5MessageOutput(item) \/ GPT5ReasoningOutput(item) \/ GPT5WebSearchOutput(item)

\* GPT5Response.safeParse(response).success
GPT5Response(response) ==
  /\ ~response.isNull
  /\ response.topOk
  /\ response.hasOutput
  /\ \A k \in 1..Len(response.output) : GPT5Output(response.output[k])

\* Array.prototype.join: an undefined element is joined as the empty string
RECURSIVE join(_, _)
join(texts, sep) ==
  IF texts = <<>> THEN ""
  ELSE IF Len(texts) = 1 THEN texts[1]
  ELSE texts[1] \o sep \o join(Tail(texts), sep)

\* mutant: the content lists are concatenated last message first
RECURSIVE flatMapContentReversed(_)
flatMapContentReversed(msgs) ==
  IF msgs = <<>> THEN <<>>
  ELSE flatMapContentReversed(Tail(msgs)) \o msgs[1].content

\* messageOutputs.flatMap(msg => msg.content), for messages that all have a
\* content list
RECURSIVE flatMapContent(_)
flatMapContent(msgs) ==
  IF msgs = <<>> THEN <<>>
  ELSE msgs[1].content \o flatMapContent(Tail(msgs))

NoResponseText == "No response text available."

\* the messages of the TypeErrors the runtime raises on a property read
TypeErrorFilter == "Cannot read properties of undefined (reading 'filter')"

TypeErrorType == "Cannot read properties of undefined (reading 'type')"

TypeErrorOutput == "Cannot read properties of null (reading 'output')"

Returned(t) == [threw |-> FALSE, text |-> t]

Threw(m) == [threw |-> TRUE, text |-> m]

IsMessage(item) == item.type = "message"

IsOutputText(c) == c.type = "output_text"

\* mutant: the joined text is returned as it is, empty or not
extractResponseTextNoSentinel(hasOutput, output) ==
  IF ~hasOutput THEN Threw(TypeErrorFilter)
  ELSE
    LET messageOutputs == SelectSeq(output, IsMessage)
    IN  IF Len(messageOutputs) = 0 THEN Returned(NoResponseText)
        ELSE IF \E k \in 1..Len(messageOutputs) : ~messageOutputs[k].hasContent
          THEN Threw(TypeErrorType)
        ELSE
          LET kept  == SelectSeq(flatMapContent(messageOutputs), IsOutputText)
              texts == [k \in 1..Len(kept) |-> kept[k].text]
          IN  Returned(join(texts, "\n\n"))

\* extractResponseText(output); hasOutput is false when the argument is
\* undefined.  The result is the returned string or the TypeError raised:
\* `output.filter` on undefined, or `content.type` on the undefined element
\* that flatMap leaves for a message without a content list.
extractResponseText(hasOutput, output) ==
  IF ~hasOutput THEN Threw(TypeErrorFilter)
  ELSE
    LET messageOutputs == SelectSeq(output, IsMessage)
    IN  IF Len(messageOutputs) = 0 THEN Returned(NoResponseText)
        ELSE IF \E k \in 1..Len(messageOutputs) : ~messageOutputs[k].hasContent
          THEN Threw(TypeErrorType)
        ELSE
          LET kept   == SelectSeq(flatMapContent(messageOutputs), IsOutputText)
              texts  == [k \in 1..Len(kept) |-> kept[k].text]
              joined == join(texts, "\n\n")
          IN  Returned(IF joined = "" THEN NoResponseText ELSE joined)

\* ------------------------------------------------------------------------
\* The handler's replies
\* ------------------------------------------------------------------------

TextReply(t) == [content |-> <<[type |-> "text", text |-> t]>>]

QuotaMessage ==
  "Insufficient OpenAI credits. You have exceeded your current quota. Please check your OpenAI plan and billing details at https://platform.openai.com/account/billing"

AuthMessage == "Authentication failed. Please check your OPENAI_API_KEY."

UnavailableMessage == "OpenAI service is temporarily unavailable. Please try again later."

RateLimitedMessage(e) ==
  "Rate limited. " \o
    (IF TruthyNum(e.retryAfterMs)
       THEN "Please retry after " \o ToString(e.retryAfterMs.n \div 1000) \o " seconds."
       ELSE "Please try again later.")

GenericMessage(e) == "Error (" \o ToString(e.status) \o "): " \o e.message

\* isQuotaError of the handler's catch block
isQuotaError(e) ==
  e.errorType = <<insufficient_quota>> \/ e.errorCode = <<insufficient_quota>>

\* mutant: the status is looked at before the quota
errorMessageStatusFirst(e) ==
  IF e.status = 429 THEN RateLimitedMessage(e)
  ELSE IF e.status = 401 THEN AuthMessage
  ELSE IF e.status >= 500 THEN UnavailableMessage
  ELSE IF isQuotaError(e) THEN QuotaMessage
  ELSE GenericMessage(e)

\* errorMessage of the catch block for an HttpError
errorMessage(e) ==
  IF isQuotaError(e) THEN QuotaMessage
  ELSE IF e.status = 429 THEN RateLimitedMessage(e)
  ELSE IF e.status = 401 THEN AuthMessage
  ELSE IF e.status >= 500 THEN UnavailableMessage
  ELSE GenericMessage(e)

\* mutant: a failure that is no HttpError is thrown on to the caller
handlerCatchRethrow(e) ==
  IF isHttp(e)
    THEN [threw |-> FALSE, reply |-> TextReply(errorMessage(e))]
    ELSE [threw |-> TRUE, reply |-> TextReply("")]

\* what the handler does with a value its try block threw: [threw, reply]
handlerCatch(e) ==
  IF isHttp(e)
    THEN [threw |-> FALSE, reply |-> TextReply(errorMessage(e))]
    ELSE [threw |-> FALSE,
          reply |-> TextReply("Error: " \o
                      (IF e.kind = "Error" THEN e.message ELSE "Unknown error occurred"))]

\* a TypeError raised inside the try block
TypeError(m) ==
  [kind |-> "Error", message |-> m, status |-> 0, retryAfterMs |-> Undefined,
   errorType |-> <<>>, errorCode |-> <<>>, call |-> 0]

\* mutant: a response that fails validation is answered with an error
handlerSuccessStrict(response) ==
  IF GPT5Response(response)
    THEN LET t == extractResponseText(TRUE, response.output)
         IN  IF t.threw THEN handlerCatch(TypeError(t.text))
             ELSE [threw |-> FALSE, reply |-> TextReply(t.text)]
    ELSE handlerCatch(TypeError("Response validation failed"))

\* the handler after withRetry returned `response`: validation, extraction
\* (validated or raw), reply; a TypeError goes to the catch block
handlerSuccess(response) ==
  IF GPT5Response(response)
    THEN LET t == extractResponseText(TRUE, response.output)
         IN  IF t.threw THEN handlerCatch(TypeError(t.text))
             ELSE [threw |-> FALSE, reply |-> TextReply(t.text)]
    ELSE IF response.isNull THEN handlerCatch(TypeError(TypeErrorOutput))
    ELSE LET t == extractResponseText(response.hasOutput, response.output)
         IN  IF t.threw THEN handlerCatch(TypeError(t.text))
             ELSE [threw |-> FALSE, reply |-> TextReply(t.text)]

\* ------------------------------------------------------------------------
\* Tool registry and outbound request
\* ------------------------------------------------------------------------

\* process.env.X || 'medium'
EnvOr(v) == OrStr(v, <<"medium">>)[1]

WebSearch(size) == <<[enabled |-> TRUE, contextSize |-> <<size>>]>>

\* toolConfigs, built once from the environment (descriptions left out: the
\* handler does not read them)
ToolConfigsOf(e) ==
  [name \in {"gpt5-search", "gpt5-high", "gpt5.2-search", "gpt5.2-high"} |->
     CASE name = "gpt5-search" ->
            [model |-> "gpt-5", reasoning |-> [effort |-> EnvOr(e.REASONING_EFFORT)],
             webSearch |-> WebSearch(EnvOr(e.SEARCH_CONTEXT_SIZE))]
       [] name = "gpt5-high" ->
            [model |-> "gpt-5", reasoning |-> [effort |-> "high"],
             webSearch |-> WebSearch("high")]
       [] name = "gpt5.2-search" ->
            [model |-> "gpt-5.2", reasoning |-> [effort |-> EnvOr(e.REASONING_EFFORT)],
             webSearch |-> WebSearch(EnvOr(e.SEARCH_CONTEXT_SIZE))]
       [] name = "gpt5.2-high" ->
            [model |-> "gpt-5.2", reasoning |-> [effort |-> "high"],
             webSearch |-> WebSearch("high")]]

\* mutant: the search tool is always sent with the default context size
BuildRequestMediumContext(config, inp) ==
  [model     |-> config.model,
   reasoning |-> config.reasoning,
   input     |-> inp,
   tools     |-> IF config.webSearch # <<>> /\ config.webSearch[1].enabled
                   THEN <<[type |-> "web_search_preview",
                           search_context_size |-> "medium"]>>
                   ELSE <<>>]

\* requestParams of the handler; tools is <<>> when the key is not set
BuildRequest(config, inp) ==
  [model     |-> config.model,
   reasoning |-> config.reasoning,
   input     |-> inp,
   tools     |-> IF config.webSearch # <<>> /\ config.webSearch[1].enabled
                   THEN <<[type |-> "web_search_preview",
                           search_context_size |->
                             OrStr(config.webSearch[1].contextSize, <<"medium">>)[1]]>>
                   ELSE <<>>]

\* ------------------------------------------------------------------------
\* Inputs of the exploration
\* ------------------------------------------------------------------------

Inv == 1..NumInv

Inputs == {"ping", "hello"}

EnvValues == {<<>>, <<"">>, <<"low">>, <<"bogus">>}

Envs == [REASONING_EFFORT : EnvValues, SEARCH_CONTEXT_SIZE : EnvValues]

DefaultEnv == [REASONING_EFFORT |-> <<>>, SEARCH_CONTEXT_SIZE |-> <<>>]

SeqsUpTo(S, n) == UNION {[1..k -> S] : k \in 0..n}

NoVendor == [bodyType |-> <<>>, bodyCode |-> <<>>, topType |-> <<>>, topCode |-> <<>>]

Vendors ==
  {NoVendor,
   [NoVendor EXCEPT !.bodyType = <<insufficient_quota>>],
   [NoVendor EXCEPT !.topCode = <<insufficient_quota>>],
   [NoVendor EXCEPT !.bodyType = <<"server_error">>]}

Statuses ==
  {Undefined, Num(400), Num(401), Num(404), Num(429), Num(500), Num(503),
   Num(599), Num(600)}

\* retry-after header: absent, "0", "2", or a value that is not a number
RetryAfters == {<<>>, << <<"0">> >>, << <<"2">> >>, << <<"s", "o", "o", "n">> >>}

ApiError(st, v, ra) ==
  [isError |-> TRUE, hasStatus |-> TRUE, status |-> st, bodyType |-> v.bodyType,
   bodyCode |-> v.bodyCode, topType |-> v.topType, topCode |-> v.topCode,
   retryAfter |-> ra, message |-> "boom"]

\* an Error without a status property (thrown by the transport)
PlainError == [ApiError(Undefined, NoVendor, <<>>) EXCEPT !.hasStatus = FALSE,
                                                          !.message = "fetch failed"]

\* a thrown value that is no Error
NonError == [PlainError EXCEPT !.isError = FALSE, !.message = ""]

FullFailures ==
  {ApiError(st, v, ra) : st \in Statuses, v \in Vendors, ra \in RetryAfters}
    \cup {PlainError, NonError}

CoreFailures ==
  {ApiError(st, NoVendor, ra) : st \in {Num(401), Num(429), Num(503)},
                                ra \in {<<>>, << <<"2">> >>}}
    \cup {ApiError(Num(429), [NoVendor EXCEPT !.bodyType = <<insufficient_quota>>], <<>>),
          PlainError}

Items ==
  {Message(<<Text("A")>>), Message(<<Text("B")>>), Message(<<Text("A"), Text("B")>>),
   Message(<<Text("")>>), Message(<<>>), Message(<<Refusal>>),
   Message(<<Text("A"), Refusal>>), Message(<<NoText, Text("B")>>),
   [Message(<<>>) EXCEPT !.hasContent = FALSE],
   [Message(<<Text("A")>>) EXCEPT !.wellFormed = FALSE],
   Other("reasoning"), Other("web_search_call"), Other("function_call")}

Response(out) == [isNull |-> FALSE, topOk |-> TRUE, hasOutput |-> TRUE, output |-> out]

Pong == Response(<<Message(<<Text("pong")>>)>>)

NullResponse == [Response(<<>>) EXCEPT !.isNull = TRUE, !.hasOutput = FALSE]

CoreResponses ==
  {Pong, Response(<<Other("reasoning")>>), Response(<<Other("function_call"), Message(<<Text("A")>>)>>)}

\* responses that are no well-formed object around an output list
OddResponses ==
  {[Response(out) EXCEPT !.topOk = FALSE] : out \in SeqsUpTo(Items, 1)}
    \cup {[Response(<<>>) EXCEPT !.hasOutput = FALSE], NullResponse}

\* ------------------------------------------------------------------------
\* State
\* ------------------------------------------------------------------------

VARIABLES
  env,           \* process.env: REASONING_EFFORT and SEARCH_CONTEXT_SIZE
  toolConfigs,   \* the registry, one handler registered per entry
  pc,            \* per invocation: "off", "idle", "calling" (suspended in
                 \* await fn()), "waiting" (suspended in the backoff timer), "done"
  tool,          \* per invocation: the tool invoked
  input,         \* per invocation: the text the caller passed
  requestParams, \* per invocation: <<>> or <<the request object built>>
  sent,          \* per invocation: the requests passed to openai.responses.create
  attempt,       \* per invocation: withRetry's attempt counter
  delays,        \* per invocation: the delays passed to setTimeout, in order
  waited,        \* per invocation: the time spent in timers that have fired
  lastError,     \* per invocation: <<>> or <<the last rejection of the remote call>>
  lastResponse,  \* per invocation: <<>> or <<the value the remote call resolved to>>
  caught,        \* per invocation: <<>> or <<e>>, the value in a catch block
  result         \* per invocation: the settlements of the handler's promise,
                 \* each [threw, reply]

vars ==
  <<env, toolConfigs, pc, tool, input, requestParams, sent, attempt, delays, waited,
    lastError, lastResponse, caught, result>>

\* The remote outcomes explored: all of them for one invocation under the
\* default environment, a core of them otherwise (the handler reads neither
\* the environment nor another invocation's state when it handles an outcome)
Rich == env = DefaultEnv /\ Cardinality({i \in Inv : pc[i] # "off"}) = 1

Failures == IF Rich THEN FullFailures ELSE CoreFailures

Responses == IF Rich THEN OddResponses \cup CoreResponses ELSE CoreResponses

\* the lengths of the output lists explored
OutputLens == IF Rich THEN 0..MaxOutputLen ELSE {}

\* the state after module load, the host being about to issue n invocations
InitWith(n) ==
  /\ env \in Envs
  /\ toolConfigs = ToolConfigsOf(env)
  /\ pc = [i \in Inv |-> IF i <= n THEN "idle" ELSE "off"]
  /\ tool = [i \in Inv |-> ""]
  /\ input = [i \in Inv |-> ""]
  /\ requestParams = [i \in Inv |-> <<>>]
  /\ sent = [i \in Inv |-> <<>>]
  /\ attempt = [i \in Inv |-> 0]
  /\ delays = [i \in Inv |-> <<>>]
  /\ waited = [i \in Inv |-> 0]
  /\ lastError = [i \in Inv |-> <<>>]
  /\ lastResponse = [i \in Inv |-> <<>>]
  /\ caught = [i \in Inv |-> <<>>]
  /\ result = [i \in Inv |-> <<>>]

Init == InitWith(1)

\* ------------------------------------------------------------------------
\* Actions: the handler of createTool, from one suspension point to the next
\* ------------------------------------------------------------------------

\* mutant: the attempt counter is one counter of the module, which the
\* invocations share and never reset
InvokeSharedAttempt(i, name, inp) ==
  /\ pc[i] = "idle"
  /\ name \in DOMAIN toolConfigs
  /\ LET req == BuildRequest(toolConfigs[name], inp)
     IN  /\ requestParams' = [requestParams EXCEPT ![i] = <<req>>]
         /\ sent' = [sent EXCEPT ![i] = <<req>>]
  /\ tool' = [tool EXCEPT ![i] = name]
  /\ input' = [input EXCEPT ![i] = inp]
  /\ attempt' = [attempt EXCEPT ![i] =
                   CHOOSE m \in {attempt[j] : j \in Inv} : \A j \in Inv : attempt[j] <= m]
  /\ pc' = [pc EXCEPT ![i] = "calling"]
  /\ UNCHANGED <<env, toolConfigs, delays, waited, lastError, lastResponse, caught, result>>

\* mutant: the handler waits for a lock that an invocation holds from its
\* entry to its reply
InvokeSerialized(i, name, inp) ==
  /\ pc[i] = "idle"
  /\ \A j \in Inv : pc[j] \notin {"calling", "waiting"}
  /\ name \in DOMAIN toolConfigs
  /\ LET req == BuildRequest(toolConfigs[name], inp)
     IN  /\ requestParams' = [requestParams EXCEPT ![i] = <<req>>]
         /\ sent' = [sent EXCEPT ![i] = <<req>>]
  /\ tool' = [tool EXCEPT ![i] = name]
  /\ input' = [input EXCEPT ![i] = inp]
  /\ attempt' = [attempt EXCEPT ![i] = 0]
  /\ pc' = [pc EXCEPT ![i] = "calling"]
  /\ UNCHANGED <<env, toolConfigs, delays, waited, lastError, lastResponse, caught, result>>

\* mutant: the handler resets the context size of the config it was
\* created with before it builds the request
InvokeWritesRegistry(i, name, inp) ==
  /\ pc[i] = "idle"
  /\ name \in DOMAIN toolConfigs
  /\ toolConfigs' = [toolConfigs EXCEPT ![name].webSearch = WebSearch("medium")]
  /\ LET req == BuildRequest(toolConfigs'[name], inp)
     IN  /\ requestParams' = [requestParams EXCEPT ![i] = <<req>>]
         /\ sent' = [sent EXCEPT ![i] = <<req>>]
  /\ tool' = [tool EXCEPT ![i] = name]
  /\ input' = [input EXCEPT ![i] = inp]
  /\ attempt' = [attempt EXCEPT ![i] = 0]
  /\ pc' = [pc EXCEPT ![i] = "calling"]
  /\ UNCHANGED <<env, delays, waited, lastError, lastResponse, caught, result>>

\* The handler is called: it builds requestParams, enters withRetry
\* (attempt = 0) and fn() issues the first remote call.
Invoke(i, name, inp) ==
  /\ pc[i] = "idle"
  /\ name \in DOMAIN toolConfigs
  /\ LET req == BuildRequest(toolConfigs[name], inp)
     IN  /\ requestParams' = [requestParams EXCEPT ![i] = <<req>>]
         /\ sent' = [sent EXCEPT ![i] = <<req>>]
  /\ tool' = [tool EXCEPT ![i] = name]
  /\ input' = [input EXCEPT ![i] = inp]
  /\ attempt' = [attempt EXCEPT ![i] = 0]
  /\ pc' = [pc EXCEPT ![i] = "calling"]
  /\ UNCHANGED <<env, toolConfigs, delays, waited, lastError, lastResponse, caught, result>>

\* The remote call resolves: withRetry returns the value, the handler
\* validates it, extracts the text and returns its reply.
Resolve(i, response) ==
  /\ pc[i] = "calling"
  /\ lastResponse' = [lastResponse EXCEPT ![i] = <<response>>]
  /\ lastError' = [lastError EXCEPT ![i] = <<>>]
  /\ result' = [result EXCEPT ![i] = Append(@, handlerSuccess(response))]
  /\ pc' = [pc EXCEPT ![i] = "done"]
  /\ UNCHANGED <<env, toolConfigs, tool, input, requestParams, sent, attempt, delays, waited, caught>>

\* mutant: the exponent counts only the earlier waits that were exponential
\* themselves (a wait that used a hint is no multiple of baseDelayMs here)
RetryHintNotCounted(i, error) ==
  /\ pc[i] = "calling"
  /\ lastError' = [lastError EXCEPT ![i] = <<error>>]
  /\ LET e   == Classify(error, Len(sent[i]))
         att == attempt[i] + 1
         n   == Cardinality({k \in DOMAIN delays[i] : delays[i][k] % baseDelayMs = 0})
     IN  /\ ~rethrows(e, att)
         /\ attempt' = [attempt EXCEPT ![i] = att]
         /\ caught' = [caught EXCEPT ![i] = <<e>>]
         /\ delays' = [delays EXCEPT ![i] = Append(@, delayMs(e, n + 1))]
  /\ pc' = [pc EXCEPT ![i] = "waiting"]
  /\ UNCHANGED <<env, toolConfigs, tool, input, requestParams, sent, waited, lastResponse, result>>

\* The remote call rejects and withRetry schedules another attempt: the
\* callback classifies the rejection, withRetry counts the attempt, finds the
\* failure retriable and within the cap, and awaits the backoff timer.
Retry(i, error) ==
  /\ pc[i] = "calling"
  /\ lastError' = [lastError EXCEPT ![i] = <<error>>]
  /\ LET e   == Classify(error, Len(sent[i]))
         att == attempt[i] + 1
     IN  /\ ~rethrows(e, att)
         /\ attempt' = [attempt EXCEPT ![i] = att]
         /\ caught' = [caught EXCEPT ![i] = <<e>>]
         /\ delays' = [delays EXCEPT ![i] = Append(@, delayMs(e, att))]
  /\ pc' = [pc EXCEPT ![i] = "waiting"]
  /\ UNCHANGED <<env, toolConfigs, tool, input, requestParams, sent, waited, lastResponse, result>>

\* mutant: after a retry the catch block renders a service failure caught
\* earlier in place of the failure of the last call
FailRendersEarlier(i, error) ==
  /\ pc[i] = "calling"
  /\ lastError' = [lastError EXCEPT ![i] = <<error>>]
  /\ LET e   == Classify(error, Len(sent[i]))
         att == attempt[i] + 1
         old == [e EXCEPT !.kind = "HttpError", !.status = 503,
                          !.errorType = <<>>, !.errorCode = <<>>]
     IN  /\ rethrows(e, att)
         /\ attempt' = [attempt EXCEPT ![i] = att]
         /\ caught' = [caught EXCEPT ![i] = <<e>>]
         /\ result' = [result EXCEPT ![i] =
                         Append(@, handlerCatch(IF attempt[i] = 0 THEN e ELSE old))]
  /\ pc' = [pc EXCEPT ![i] = "done"]
  /\ UNCHANGED <<env, toolConfigs, tool, input, requestParams, sent, delays, waited, lastResponse>>

\* mutant: withRetry waits the backoff before it decides to rethrow
FailAfterWait(i, error) ==
  /\ pc[i] = "calling"
  /\ lastError' = [lastError EXCEPT ![i] = <<error>>]
  /\ LET e   == Classify(error, Len(sent[i]))
         att == attempt[i] + 1
     IN  /\ rethrows(e, att)
         /\ attempt' = [attempt EXCEPT ![i] = att]
         /\ caught' = [caught EXCEPT ![i] = <<e>>]
         /\ delays' = [delays EXCEPT ![i] = Append(@, delayMs(e, att))]
         /\ waited' = [waited EXCEPT ![i] = @ + delayMs(e, att)]
         /\ result' = [result EXCEPT ![i] = Append(@, handlerCatch(e))]
  /\ pc' = [pc EXCEPT ![i] = "done"]
  /\ UNCHANGED <<env, toolConfigs, tool, input, requestParams, sent, lastResponse>>

\* The remote call rejects and withRetry rethrows: the handler's catch block
\* turns the failure into its reply.
Fail(i, error) ==
  /\ pc[i] = "calling"
  /\ lastError' = [lastError EXCEPT ![i] = <<error>>]
  /\ LET e   == Classify(error, Len(sent[i]))
         att == attempt[i] + 1
     IN  /\ rethrows(e, att)
         /\ attempt' = [attempt EXCEPT ![i] = att]
         /\ caught' = [caught EXCEPT ![i] = <<e>>]
         /\ result' = [result EXCEPT ![i] = Append(@, handlerCatch(e))]
  /\ pc' = [pc EXCEPT ![i] = "done"]
  /\ UNCHANGED <<env, toolConfigs, tool, input, requestParams, sent, delays, waited, lastResponse>>

\* mutant: the promise of the backoff timer never resolves
TimerFiresLost(i) ==
  /\ pc[i] = "waiting"
  /\ UNCHANGED vars

\* The backoff timer fires: the loop of withRetry calls fn() again, which
\* issues the next remote call with the same requestParams (the failure
\* caught by the iteration that ended is out of scope).
TimerFires(i) ==
  /\ pc[i] = "waiting"
  /\ waited' = [waited EXCEPT ![i] = @ + delays[i][Len(delays[i])]]
  /\ sent' = [sent EXCEPT ![i] = Append(@, requestParams[i][1])]
  /\ caught' = [caught EXCEPT ![i] = <<>>]
  /\ lastError' = [lastError EXCEPT ![i] = <<>>]
  /\ pc' = [pc EXCEPT ![i] = "calling"]
  /\ UNCHANGED <<env, toolConfigs, tool, input, requestParams, attempt, delays, lastResponse, result>>

Next ==
  \E i \in Inv :
    \/ pc[i] = "idle" /\ \E name \in DOMAIN toolConfigs, inp \in Inputs : Invoke(i, name, inp)
    \/ pc[i] = "calling" /\ \E response \in Responses : Resolve(i, response)
    \/ pc[i] = "calling" /\ \E k \in OutputLens : \E out \in [1..k -> Items] :
                               Resolve(i, Response(out))
    \/ pc[i] = "calling" /\ \E error \in Failures : Retry(i, error)
    \/ pc[i] = "calling" /\ \E error \in Failures : Fail(i, error)
    \/ TimerFires(i)

Spec == Init /\ [][Next]_vars

\* the remote call of invocation i settles, with one of the common values
\* or rejections
Settles(i) ==
  /\ pc[i] = "calling"
  /\ \/ \E response \in CoreResponses : Resolve(i, response)
     \/ \E error \in CoreFailures : Retry(i, error)
     \/ \E error \in CoreFailures : Fail(i, error)

\* the event loop is fair: a pending remote call settles and a pending timer
\* fires.  A call that settles with any other outcome of Next is no longer
\* pending either, which meets the first condition.
FairSpec ==
  Spec /\ \A i \in Inv : WF_vars(Settles(i)) /\ WF_vars(TimerFires(i))

\* the remote outcomes explored when several invocations run at once: a
\* service failure, a rate limit with a hint and an authentication failure
ConcFailures ==
  {ApiError(Num(503), NoVendor, <<>>),
   ApiError(Num(429), NoVendor, << <<"2">> >>),
   ApiError(Num(401), NoVendor, <<>>)}

\* the server is started with the default environment and every invocation
\* may be made
ConcInit == InitWith(NumInv) /\ env = DefaultEnv

\* the handlers of the invocations interleave at their suspension points
ConcNext ==
  \E i \in Inv :
    \/ pc[i] = "idle" /\ Invoke(i, "gpt5-search", "ping")
    \/ pc[i] = "calling" /\ Resolve(i, Pong)
    \/ pc[i] = "calling" /\ \E error \in ConcFailures : Retry(i, error)
    \/ pc[i] = "calling" /\ \E error \in ConcFailures : Fail(i, error)
    \/ TimerFires(i)

ConcSpec == ConcInit /\ [][ConcNext]_vars

\* ------------------------------------------------------------------------
\* Properties
\* ------------------------------------------------------------------------

Done(i) == pc[i] = "done"

\* the text of the reply of a finished invocation
ReplyText(i) == result[i][1].reply.content[1].text

RECURSIVE Sum(_)
Sum(seq) == IF seq = <<>> THEN 0 ELSE seq[1] + Sum(Tail(seq))

\* the failure caught last is a quota failure
QuotaFailure(e) ==
  e.errorType = <<insufficient_quota>> \/ e.errorCode = <<insufficient_quota>>

\* the failure is one the retry policy may retry, read off its fields
Eligible(e) ==
  /\ e.kind = "HttpError"
  /\ ~QuotaFailure(e)
  /\ e.status \in {429} \cup 500..599

\* C1: the handler never throws to its caller: an invocation that has not
\* finished has settled nothing, and a finished one has settled exactly once,
\* by returning a reply that is one text content item and nothing else (no
\* error flag), whatever the remote outcomes were.
C1_HandlerAlwaysReplies ==
  \A i \in Inv :
    /\ ~Done(i) => result[i] = <<>>
    /\ Done(i) =>
         /\ Len(result[i]) = 1
         /\ ~result[i][1].threw
         /\ DOMAIN result[i][1].reply = {"content"}
         /\ Len(result[i][1].reply.content) = 1
         /\ result[i][1].reply.content[1].type = "text"

\* a value that is no Error was thrown by the remote call and answered
C1_Witness ==
  \E i \in Inv :
    /\ Done(i)
    /\ lastError[i] = <<NonError>>
    /\ ReplyText(i) = "Error: Unknown error occurred"

\* C2: withRetry waits for another attempt only after a classified failure
\* that is no quota failure and whose status is 429 or in 500..599; after any
\* other failure the invocation is over.
C2_RetryOnlyIfEligible ==
  \A i \in Inv :
    /\ pc[i] = "waiting" => caught[i] # <<>> /\ Eligible(caught[i][1])
    /\ (caught[i] # <<>> /\ ~Eligible(caught[i][1])) => Done(i)

C2_Witness ==
  \E i \in Inv :
    /\ pc[i] = "waiting"
    /\ caught[i][1].status = 599
    /\ caught[i][1].errorType = <<"server_error">>

\* C3: one invocation makes at most retries + 1 remote calls; when the last
\* of retries + 1 calls fails, the handler's catch block holds the failure of
\* that call, as the callback threw it, and the handler replies with its
\* message instead of throwing.
C3_CappedAndLastFailureUnchanged ==
  \A i \in Inv :
    /\ Len(sent[i]) <= retries + 1
    /\ attempt[i] <= retries + 1
    /\ (Done(i) /\ lastError[i] # <<>> /\ Len(sent[i]) = retries + 1) =>
         /\ caught[i] = <<Classify(lastError[i][1], retries + 1)>>
         /\ caught[i][1].call = Len(sent[i])
         /\ result[i] = <<[threw |-> FALSE, reply |-> TextReply(ReplyText(i))]>>

C3_Witness ==
  \E i \in Inv :
    /\ Done(i)
    /\ Len(sent[i]) = 3
    /\ caught[i] # <<>> /\ caught[i][1].status = 503 /\ Eligible(caught[i][1])
    /\ ReplyText(i) = UnavailableMessage

\* C4: a failure that is not retriable ends the invocation at once: no timer
\* is started after it and no remote call follows it, so the calls made are
\* the failures counted and the waits are one fewer; a first failure with
\* status 401 leaves exactly one remote call.
C4_NonRetriableFailsAtOnce ==
  \A i \in Inv :
    /\ (caught[i] # <<>> /\ ~Eligible(caught[i][1])) =>
         /\ Done(i)
         /\ Len(sent[i]) = attempt[i]
         /\ Len(delays[i]) = attempt[i] - 1
         /\ waited[i] = Sum(delays[i])
    /\ (caught[i] # <<>> /\ caught[i][1].kind = "HttpError"
          /\ caught[i][1].status = 401 /\ attempt[i] = 1) =>
         Done(i) /\ Len(sent[i]) = 1 /\ delays[i] = <<>>

C4_Witness ==
  \E i \in Inv :
    /\ Done(i)
    /\ attempt[i] = 1
    /\ caught[i] # <<>> /\ caught[i][1].kind = "HttpError" /\ caught[i][1].status = 401
    /\ ~QuotaFailure(caught[i][1])
    /\ Len(sent[i]) = 1

\* C5: after a classified failure whose vendor type or code is
\* insufficient_quota there is no retry, whatever the status: the invocation
\* is over and no timer was started for that failure.
C5_QuotaNeverRetried ==
  \A i \in Inv :
    (caught[i] # <<>> /\ caught[i][1].kind = "HttpError" /\ QuotaFailure(caught[i][1])) =>
      /\ Done(i)
      /\ Len(delays[i]) = attempt[i] - 1
      /\ Len(sent[i]) = attempt[i]

C5_Witness ==
  \E i \in Inv :
    /\ Done(i)
    /\ attempt[i] = 1
    /\ caught[i] # <<>> /\ caught[i][1].status = 503
    /\ caught[i][1].errorCode = <<insufficient_quota>>
    /\ Len(sent[i]) = 1

\* C6: whenever withRetry waits after a failure that carries a retry-after
\* hint of h >= 0 milliseconds, the delay it passes to the timer is h.
C6_HintIsTheDelay ==
  \A i \in Inv :
    (pc[i] = "waiting" /\ caught[i][1].retryAfterMs.tag = "number"
       /\ caught[i][1].retryAfterMs.n >= 0) =>
      delays[i][Len(delays[i])] = caught[i][1].retryAfterMs.n

\* C7: whenever withRetry waits after its k-th failure and the failure
\* carries no retry-after hint, the delay is baseDelayMs * 2^(k-1): 300 after
\* the first failure and 600 after the second.
C7_ExponentialWithoutHint ==
  \A i \in Inv :
    (pc[i] = "waiting" /\ caught[i][1].retryAfterMs = Undefined) =>
      /\ Len(delays[i]) = attempt[i]
      /\ delays[i][attempt[i]] = baseDelayMs * 2 ^ (attempt[i] - 1)
      /\ attempt[i] = 1 => delays[i][1] = 300
      /\ attempt[i] = 2 => delays[i][2] = 600

C7_Witness ==
  \E i \in Inv :
    /\ pc[i] = "waiting"
    /\ attempt[i] = 2
    /\ caught[i][1].status = 503 /\ caught[i][1].retryAfterMs = Undefined
    /\ delays[i] = <<300, 600>>

\* the responses from which the extractor returns a text
Extractable(response) ==
  ~response.isNull /\ ~extractResponseText(response.hasOutput, response.output).threw

\* C8: when the remote call succeeds on attempt k after k-1 retried failures,
\* the successful call is the last one (k calls, k-1 timers, all fired), the
\* time waited is the sum of the k-1 delays, and the reply is the text
\* extracted from that response.
C8_SuccessAfterRetries ==
  \A i \in Inv :
    (Done(i) /\ lastResponse[i] # <<>>) =>
      /\ Len(sent[i]) = attempt[i] + 1
      /\ Len(sent[i]) <= retries + 1
      /\ Len(delays[i]) = attempt[i]
      /\ waited[i] = Sum(delays[i])
      /\ Extractable(lastResponse[i][1]) =>
           /\ Len(result[i]) = 1 /\ ~result[i][1].threw
           /\ ReplyText(i) =
                extractResponseText(TRUE, lastResponse[i][1].output).text

\* two failures without hint, then a response that fails validation but
\* holds a text: 300 + 600 = 900 ms waited, three calls, the text replied
C8_Witness ==
  \E i \in Inv :
    /\ Done(i)
    /\ lastResponse[i] = <<Response(<<Other("function_call"), Message(<<Text("A")>>)>>)>>
    /\ Len(sent[i]) = 3
    /\ delays[i] = <<300, 600>>
    /\ waited[i] = 900
    /\ ReplyText(i) = "A"

\* C9: the reply for a terminal classified failure follows the first rule
\* that matches: quota, then status 429, then 401, then >= 500, then the
\* generic message with the status and the underlying text.
C9_RenderingPrecedence ==
  \A i \in Inv :
    (Done(i) /\ caught[i] # <<>> /\ caught[i][1].kind = "HttpError") =>
      LET e == caught[i][1]
          t == ReplyText(i)
      IN  /\ QuotaFailure(e) => t = QuotaMessage
          /\ (~QuotaFailure(e) /\ e.status = 429) =>
               t \in {"Rate limited. Please try again later.",
                      "Rate limited. Please retry after "
                        \o ToString(e.retryAfterMs.n \div 1000) \o " seconds."}
          /\ (~QuotaFailure(e) /\ e.status = 401) => t = AuthMessage
          /\ (~QuotaFailure(e) /\ e.status \notin {429, 401} /\ e.status >= 500) =>
               t = UnavailableMessage
          /\ (~QuotaFailure(e) /\ e.status \notin {429, 401} /\ e.status < 500) =>
               t = "Error (" \o ToString(e.status) \o "): OpenAI API error: "
                     \o lastError[i][1].message

\* a quota failure with status 429 is answered with the billing message
C9_Witness ==
  \E i \in Inv :
    /\ Done(i)
    /\ caught[i] # <<>> /\ caught[i][1].status = 429
    /\ caught[i][1].errorType = <<insufficient_quota>>
    /\ ReplyText(i) = QuotaMessage

\* the rejection carries no status and no vendor type or code
Unclassified(error) ==
  /\ ~error.hasStatus \/ error.status = Undefined
  /\ error.bodyType = <<>> /\ error.bodyCode = <<>>
  /\ error.topType = <<>> /\ error.topCode = <<>>

\* C10 as claimed, read in the way most favourable to it (the failure is an
\* Error whose status property holds no status, so that the classifier sees
\* it): a failure with no status and no vendor type or code is retried while
\* retries remain and, once terminal, answered with the generic message.
C10_AsClaimed ==
  \A i \in Inv :
    (lastError[i] # <<>> /\ Unclassified(lastError[i][1])
       /\ lastError[i][1].isError /\ lastError[i][1].hasStatus) =>
      /\ attempt[i] <= retries => pc[i] = "waiting"
      /\ Done(i) => ReplyText(i) = "Error (500): OpenAI API error: "
                                     \o lastError[i][1].message

\* C10 as amended: an Error with a status property that holds no status, and
\* no quota type or code, is classified with status 500, retried while
\* retries remain and, once terminal, answered with the
\* temporarily-unavailable message; a failure without a status property is
\* not classified, never retried, and answered with "Error: " and its text.
C10_MissingStatusIs500 ==
  \A i \in Inv :
    (lastError[i] # <<>> /\ Unclassified(lastError[i][1])) =>
      LET error == lastError[i][1]
      IN  /\ (error.isError /\ error.hasStatus) =>
               /\ caught[i][1].kind = "HttpError" /\ caught[i][1].status = 500
               /\ attempt[i] <= retries => pc[i] = "waiting"
               /\ attempt[i] > retries =>
                    Done(i) /\ ReplyText(i) = UnavailableMessage
          /\ (error.isError /\ ~error.hasStatus) =>
               /\ Done(i)
               /\ Len(delays[i]) = attempt[i] - 1
               /\ ReplyText(i) = "Error: " \o error.message

C10_Witness ==
  \E i \in Inv :
    /\ Done(i)
    /\ lastError[i] = <<ApiError(Undefined, NoVendor, <<>>)>>
    /\ Len(sent[i]) = 3
    /\ delays[i] = <<300, 600>>
    /\ ReplyText(i) = UnavailableMessage

\* the response is an object with an output list that fails schema validation
FailsValidation(response) ==
  ~response.isNull /\ response.hasOutput /\ ~GPT5Response(response)

\* C11 (as claimed): when the remote call succeeds with a value that has an
\* output list but fails schema validation, no further remote call is made
\* and the reply is the extractor's result over the raw output list.
C11_AsClaimed ==
  \A i \in Inv :
    (Done(i) /\ lastResponse[i] # <<>> /\ FailsValidation(lastResponse[i][1])) =>
      LET response == lastResponse[i][1]
          t == extractResponseText(response.hasOutput, response.output)
      IN  /\ Len(sent[i]) = attempt[i] + 1
          /\ ~result[i][1].threw
          /\ ~t.threw
          /\ ReplyText(i) = t.text

\* the raw output list holds a message item with a content list in which an
\* output_text item carries a text
Recoverable(response) ==
  /\ ~response.isNull
  /\ response.hasOutput
  /\ \E k \in 1..Len(response.output) :
       /\ response.output[k].type = "message"
       /\ response.output[k].hasContent
       /\ \E j \in 1..Len(response.output[k].content) :
            /\ response.output[k].content[j].type = "output_text"
            /\ response.output[k].content[j].hasText

\* the reply is one that the catch block renders for a thrown Error
IsErrorReply(t) ==
  t \in {"Error: " \o m : m \in {TypeErrorFilter, TypeErrorType, TypeErrorOutput}}

\* C12 (as claimed): a response that fails schema validation and whose raw
\* output list holds a message item with an output_text content item is
\* answered with a non-empty extracted text, never with an error message.
C12_AsClaimed ==
  \A i \in Inv :
    (Done(i) /\ lastResponse[i] # <<>>
       /\ ~GPT5Response(lastResponse[i][1]) /\ Recoverable(lastResponse[i][1])) =>
      /\ ReplyText(i) # ""
      /\ ~IsErrorReply(ReplyText(i))

\* every message item of the output list has a content list
MessagesHaveContent(output) ==
  \A k \in 1..Len(output) : output[k].type = "message" => output[k].hasContent

\* the texts that one content list contributes: those of its output_text
\* items, in order (an output_text item without text contributes "")
RECURSIVE ContentTexts(_)
ContentTexts(content) ==
  IF content = <<>> THEN <<>>
  ELSE (IF content[1].type = "output_text" THEN <<content[1].text>> ELSE <<>>)
         \o ContentTexts(Tail(content))

\* the texts that an output list contributes: those of its message items, in
\* the order of the list, and nothing for items of any other type
RECURSIVE ExpectedTexts(_)
ExpectedTexts(output) ==
  IF output = <<>> THEN <<>>
  ELSE (IF output[1].type = "message" THEN ContentTexts(output[1].content) ELSE <<>>)
         \o ExpectedTexts(Tail(output))

\* the texts separated by a blank line
RECURSIVE BlankLineJoined(_)
BlankLineJoined(texts) ==
  IF texts = <<>> THEN ""
  ELSE IF Len(texts) = 1 THEN texts[1]
  ELSE BlankLineJoined(SubSeq(texts, 1, Len(texts) - 1)) \o "\n\n" \o texts[Len(texts)]

\* C13: the reply to a response whose message items all have content lists
\* is, when it is not empty, exactly the texts of the output_text content
\* items of the message items, in output-list order and then content-list
\* order, joined with a blank line; other items and other content contribute
\* nothing.  Messages "A" and "B" give "A\n\nB", and a single message "pong"
\* is answered "pong".
C13_ExtractsMessageTextsInOrder ==
  /\ extractResponseText(TRUE, <<Message(<<Text("A")>>), Message(<<Text("B")>>)>>)
       = Returned("A\n\nB")
  /\ \A i \in Inv :
       (Done(i) /\ lastResponse[i] # <<>>) =>
         LET response == lastResponse[i][1]
         IN  /\ response = Pong => ReplyText(i) = "pong"
             /\ (~response.isNull /\ response.hasOutput
                   /\ MessagesHaveContent(response.output)
                   /\ BlankLineJoined(ExpectedTexts(response.output)) # "") =>
                  ReplyText(i) = BlankLineJoined(ExpectedTexts(response.output))

\* a reasoning item, then a message with texts "A" and "B" in one content
\* list: the reply is "A\n\nB"
C13_Witness ==
  \E i \in Inv :
    /\ Done(i)
    /\ lastResponse[i] = <<Response(<<Other("reasoning"), Message(<<Text("A"), Text("B")>>)>>)>>
    /\ ReplyText(i) = "A\n\nB"

\* C14: the reply is the sentinel "No response text available." for every
\* output list without a message item, and whenever the texts of the message
\* items join to the empty string (no output_text content, or empty texts).
C14_SentinelWhenNoText ==
  \A i \in Inv :
    (Done(i) /\ lastResponse[i] # <<>>
       /\ ~lastResponse[i][1].isNull /\ lastResponse[i][1].hasOutput) =>
      LET output == lastResponse[i][1].output
      IN  /\ (\A k \in 1..Len(output) : output[k].type # "message") =>
               ReplyText(i) = "No response text available."
          /\ (MessagesHaveContent(output) /\ BlankLineJoined(ExpectedTexts(output)) = "") =>
               ReplyText(i) = "No response text available."

\* a message whose only text is empty, after a tool-activity item
C14_Witness ==
  \E i \in Inv :
    /\ Done(i)
    /\ lastResponse[i] = <<Response(<<Other("web_search_call"), Message(<<Text("")>>)>>)>>
    /\ ReplyText(i) = NoResponseText

\* C15 (as claimed): the extractor returns a string for every output list
\* the pipeline hands it, validated or raw.
C15_AsClaimed ==
  \A i \in Inv :
    (Done(i) /\ lastResponse[i] # <<>>
       /\ ~lastResponse[i][1].isNull /\ lastResponse[i][1].hasOutput) =>
      ~extractResponseText(lastResponse[i][1].hasOutput, lastResponse[i][1].output).threw

\* the request carries what the config and the caller prescribe
CarriesConfig(request, config, inp) ==
  /\ request.model = config.model
  /\ request.reasoning.effort = config.reasoning.effort
  /\ request.input = inp
  /\ request.tools # <<>> <=> (config.webSearch # <<>> /\ config.webSearch[1].enabled)
  /\ request.tools # <<>> =>
       /\ Len(request.tools) = 1
       /\ request.tools[1].type = "web_search_preview"
       /\ <<request.tools[1].search_context_size>> = config.webSearch[1].contextSize

\* configs without a search capability (the registry holds none)
NoSearchConfigs ==
  {[model |-> "gpt-5", reasoning |-> [effort |-> "low"], webSearch |-> w] :
     w \in {<<>>, <<[enabled |-> FALSE, contextSize |-> <<"high">>]>>}}

\* C17: every outbound request of an invocation carries the model and the
\* reasoning effort of the tool's config and the caller's input, and a search
\* capability with the config's context size exactly when the config enables
\* web search; every retry sends the same request as the first attempt.
C17_RequestCarriesConfig ==
  /\ \A config \in NoSearchConfigs, inp \in Inputs :
       CarriesConfig(BuildRequest(config, inp), config, inp)
  /\ \A i \in Inv :
       \A k \in 1..Len(sent[i]) :
         /\ CarriesConfig(sent[i][k], toolConfigs[tool[i]], input[i])
         /\ sent[i][k] = sent[i][1]

\* the third attempt of gpt5-search under SEARCH_CONTEXT_SIZE=low, and of
\* gpt5-high, whose context size is fixed
C17_Witness ==
  \E i \in Inv :
    /\ Len(sent[i]) = 3
    /\ input[i] = "hello"
    /\ \/ /\ tool[i] = "gpt5-search"
          /\ env.SEARCH_CONTEXT_SIZE = <<"low">>
          /\ sent[i][3].tools[1].search_context_size = "low"
       \/ /\ tool[i] = "gpt5.2-high"
          /\ sent[i][3].tools[1].search_context_size = "high"

\* C18: provided every remote call settles and every backoff timer fires, an
\* invocation that has been made completes with exactly one text reply,
\* whatever the remote outcomes are.
C18_InvocationCompletes ==
  \A i \in Inv :
    (pc[i] \in {"calling", "waiting"}) ~>
      (Done(i) /\ Len(result[i]) = 1 /\ ~result[i][1].threw
         /\ Len(result[i][1].reply.content) = 1)

\* an invocation completed after the retries were used up
C18_Witness ==
  \E i \in Inv :
    /\ Done(i)
    /\ Len(result[i]) = 1
    /\ Len(sent[i]) = retries + 1
    /\ attempt[i] = retries + 1

\* the tool variants the README lists as available
ReadmeTools ==
  {"gpt5-search", "gpt5", "gpt5-low", "gpt5-high", "gpt5-mini", "gpt5-nano", "gpt5-pro"}

\* C19 (as claimed): every tool variant the README lists is registered, and
\* the requests of the tool gpt5 carry no search capability.
C19_AsClaimed ==
  /\ ReadmeTools \subseteq DOMAIN toolConfigs
  /\ \A i \in Inv :
       tool[i] = "gpt5" => \A k \in 1..Len(sent[i]) : sent[i][k].tools = <<>>

\* C20 (as claimed): a terminal classified failure is answered with the
\* rate-limited or the temporarily-unavailable message exactly when the
\* retry engine treats it as retriable, and then only after retries + 1
\* remote calls.
C20_AsClaimed ==
  \A i \in Inv :
    (Done(i) /\ caught[i] # <<>> /\ caught[i][1].kind = "HttpError") =>
      LET e         == caught[i][1]
          transient == ReplyText(i) \in {RateLimitedMessage(e), UnavailableMessage}
      IN  /\ transient <=> Eligible(e)
          /\ transient => Len(sent[i]) = retries + 1

\* everything the model keeps about invocation i
Local(i) ==
  <<pc[i], tool[i], input[i], requestParams[i], sent[i], attempt[i], delays[i],
    waited[i], lastError[i], lastResponse[i], caught[i], result[i]>>

\* C21: in every interleaving of invocations, a step of one invocation
\* leaves every other invocation as it was; an invocation starts with attempt
\* 0, no delay and one remote call, and one that ends on a retriable failure
\* has made its full retries + 1 calls, whatever the others did before.
C21_InvocationsIndependent ==
  [][\A i \in Inv :
       /\ Local(i)' # Local(i) => \A j \in Inv \ {i} : Local(j)' = Local(j)
       /\ (pc[i] = "idle" /\ pc'[i] # "idle") =>
            /\ attempt'[i] = 0
            /\ delays'[i] = <<>>
            /\ Len(sent'[i]) = 1
       /\ (pc[i] = "calling" /\ pc'[i] = "waiting") =>
            /\ attempt'[i] = Len(sent[i])
            /\ Len(delays'[i]) = Len(sent[i])
       /\ (pc[i] = "calling" /\ pc'[i] = "done" /\ lastError'[i] # <<>>
             /\ Eligible(caught'[i][1])) =>
            Len(sent[i]) = retries + 1]_vars

\* an invocation has used up its retries, and another one is at its third
\* remote call all the same
C21_Witness ==
  \E i, j \in Inv :
    /\ i # j
    /\ Done(i) /\ Len(sent[i]) = retries + 1 /\ caught[i] # <<>>
    /\ Eligible(caught[i][1])
    /\ pc[j] = "calling" /\ Len(sent[j]) = retries + 1

\* invocation i is suspended: in its outbound call or in a backoff wait
Suspended(i) == pc[i] \in {"calling", "waiting"}

\* C22: while an invocation is suspended, any other invocation can take its
\* next step: be issued and make its remote call, have its call settle and
\* reply, or have its timer fire.  An invocation that has been issued and
\* has not replied is suspended in its outbound call or in a backoff wait,
\* nowhere else.
C22_NoInvocationBlocksAnother ==
  \A i \in Inv :
    /\ (sent[i] # <<>> /\ result[i] = <<>>) <=> Suspended(i)
    /\ Suspended(i) =>
         \A j \in Inv \ {i} :
           /\ pc[j] = "idle" => ENABLED Invoke(j, "gpt5-search", "ping")
           /\ pc[j] = "calling" =>
                /\ ENABLED Resolve(j, Pong)
                /\ \A error \in ConcFailures :
                     ENABLED (Retry(j, error) \/ Fail(j, error))
           /\ pc[j] = "waiting" => ENABLED TimerFires(j)

\* one invocation is in a backoff wait, and another one, suspended in its
\* second remote call, has waited its own backoff meanwhile
C22_Witness ==
  \E i, j \in Inv :
    /\ i # j
    /\ pc[i] = "waiting"
    /\ pc[j] = "calling" /\ Len(sent[j]) = 2

\* C23: no step of an invocation (entry, success, failure, retry, lenient
\* extraction) changes the environment or the registry: every ToolConfig
\* stays as it was built at start-up and no tool is added or removed.
C23_RegistryImmutable ==
  [][/\ env' = env
     /\ toolConfigs' = toolConfigs
     /\ toolConfigs' = ToolConfigsOf(env)
     /\ DOMAIN toolConfigs' = {"gpt5-search", "gpt5-high", "gpt5.2-search", "gpt5.2-high"}]_vars

\* under an override, an invocation was retried twice and then answered by
\* the lenient extraction; the registry still holds the override
C23_Witness ==
  \E i \in Inv :
    /\ Done(i)
    /\ Len(sent[i]) = 3
    /\ lastResponse[i] # <<>> /\ ~GPT5Response(lastResponse[i][1])
    /\ env.REASONING_EFFORT = <<"low">>
    /\ toolConfigs[tool[i]].reasoning.effort = "low"

\* the levels of reasoning effort and of search context size
Levels == {"low", "medium", "high"}

\* C24 (as claimed): whatever the overrides REASONING_EFFORT and
\* SEARCH_CONTEXT_SIZE are, every ToolConfig has a reasoning effort and, with
\* web search configured, a context size among low, medium and high, and an
\* unset override gives medium.
C24_AsClaimed ==
  /\ \A name \in DOMAIN toolConfigs :
       /\ toolConfigs[name].reasoning.effort \in Levels
       /\ toolConfigs[name].webSearch # <<>> =>
            toolConfigs[name].webSearch[1].contextSize[1] \in Levels
  /\ env.REASONING_EFFORT = <<>> => toolConfigs["gpt5-search"].reasoning.effort = "medium"
  /\ env.SEARCH_CONTEXT_SIZE = <<>> =>
       toolConfigs["gpt5-search"].webSearch[1].contextSize[1] = "medium"

\* every item of the response is a complete item of a known kind, and every
\* content item that claims the kind output_text carries a text
OnlyUnknownContentKinds(response) ==
  /\ ~response.isNull /\ response.topOk /\ response.hasOutput
  /\ \A k \in 1..Len(response.output) :
       LET item == response.output[k]
       IN  /\ item.wellFormed
           /\ item.type \in {"message", "reasoning", "web_search_call"}
           /\ item.type = "message" =>
                /\ item.hasContent
                /\ \A j \in 1..Len(item.content) :
                     item.content[j].type = "output_text" => item.content[j].hasText

\* C25 (as claimed): a response is accepted by the schema validator when its
\* message items hold content of kinds other than output_text, as long as
\* every content item of kind output_text has its text.
C25_AsClaimed ==
  \A i \in Inv :
    (Done(i) /\ lastResponse[i] # <<>> /\ OnlyUnknownContentKinds(lastResponse[i][1])) =>
      GPT5Response(lastResponse[i][1])

\* C26 (as claimed): the reply to a terminal status-429 failure without quota
\* type or code names the delay in seconds whenever the failure carries a
\* retry-after hint (a number of milliseconds), and has the 'try again later'
\* wording only without a hint.
C26_AsClaimed ==
  \A i \in Inv :
    (Done(i) /\ caught[i] # <<>> /\ caught[i][1].kind = "HttpError"
       /\ caught[i][1].status = 429 /\ ~QuotaFailure(caught[i][1])) =>
      LET hint == caught[i][1].retryAfterMs
      IN  ReplyText(i) =
            IF hint.tag = "number"
              THEN "Rate limited. Please retry after " \o ToString(hint.n \div 1000)
                     \o " seconds."
              ELSE "Rate limited. Please try again later."

\* the rejection carries the quota type or code
QuotaRejection(error) ==
  insufficient_quota \in
    {x[1] : x \in {error.bodyType, error.bodyCode, error.topType, error.topCode} \ {<<>>}}

\* the rejection is an API error with status st and without quota type or code
StatusRejection(error, st) ==
  error.isError /\ error.hasStatus /\ error.status = Num(st) /\ ~QuotaRejection(error)

\* C27: when an invocation ends on a failure after earlier failures were
\* retried (each of them a rate limit or a service failure), the reply is
\* the one for the rejection of the last remote call made: status 401 gives
\* the authentication message, 400 and 404 the generic message, a quota
\* rejection the billing message and a transport error its own text, none of
\* them the message of an earlier failure.  Status 503 and then 401 gives
\* the authentication message after exactly two remote calls.
C27_RenderedFromLastFailure ==
  \A i \in Inv :
    (Done(i) /\ lastError[i] # <<>> /\ delays[i] # <<>>) =>
      LET raw == lastError[i][1]
      IN  /\ caught[i] # <<>> /\ caught[i][1].call = Len(sent[i])
          /\ Len(sent[i]) = Len(delays[i]) + 1
          /\ StatusRejection(raw, 401) => ReplyText(i) = AuthMessage
          /\ (\E st \in {400, 404} : StatusRejection(raw, st)) =>
               ReplyText(i) \in {"Error (400): OpenAI API error: boom",
                                 "Error (404): OpenAI API error: boom"}
          /\ (raw.isError /\ raw.hasStatus /\ QuotaRejection(raw)) =>
               ReplyText(i) = QuotaMessage
          /\ raw = PlainError => ReplyText(i) = "Error: fetch failed"
          /\ (StatusRejection(raw, 401) /\ delays[i] = <<300>>) =>
               Len(sent[i]) = 2 /\ attempt[i] = 2

\* a first failure was retried after 300 ms (status 503, no hint), the
\* second call was rejected with status 401
C27_Witness ==
  \E i \in Inv :
    /\ Done(i)
    /\ delays[i] = <<300>>
    /\ lastError[i] # <<>> /\ StatusRejection(lastError[i][1], 401)
    /\ Len(sent[i]) = 2
    /\ ReplyText(i) = AuthMessage

\* C28: the exponent of a wait without hint is the number of remote calls
\* that have failed so far in the invocation, whether or not their waits
\* used a hint: the k-th failure waits baseDelayMs * 2^(k-1), and after a
\* first wait of 2000 ms taken from a hint the second wait is 600 ms.
C28_ExponentCountsHintedFailures ==
  \A i \in Inv :
    (pc[i] = "waiting" /\ caught[i][1].retryAfterMs = Undefined) =>
      LET failed == Len(sent[i])
      IN  /\ attempt[i] = failed
          /\ Len(delays[i]) = failed
          /\ delays[i][failed] = baseDelayMs * 2 ^ (failed - 1)
          /\ (failed = 2 /\ delays[i][1] = 2000) => delays[i] = <<2000, 600>>

\* the first failure carried the hint "2" and was waited 2000 ms, the second
\* carries none
C28_Witness ==
  \E i \in Inv :
    /\ pc[i] = "waiting"
    /\ waited[i] = 2000
    /\ caught[i][1].retryAfterMs = Undefined
    /\ delays[i] = <<2000, 600>>

\* C29: backoff waits lie between two remote calls of the invocation.  While
\* a call is pending and once the invocation has replied (after a success, a
\* non-retriable failure or the last allowed failure), the waits are the
\* calls minus one and all of them are over; during a wait, which the next
\* call follows, they equal the calls; nothing is waited before the first
\* call.
C29_WaitsOnlyBetweenCalls ==
  \A i \in Inv :
    /\ sent[i] = <<>> => delays[i] = <<>> /\ waited[i] = 0
    /\ Len(sent[i]) = 1 => waited[i] = 0
    /\ (pc[i] = "calling" \/ Done(i)) =>
         /\ Len(delays[i]) = Len(sent[i]) - 1
         /\ waited[i] = Sum(delays[i])
    /\ pc[i] = "waiting" =>
         /\ Len(delays[i]) = Len(sent[i])
         /\ Len(sent[i]) <= retries
         /\ waited[i] = Sum(SubSeq(delays[i], 1, Len(delays[i]) - 1))

\* the invocation ended on its third failure: three calls, two waits
C29_Witness ==
  \E i \in Inv :
    /\ Done(i)
    /\ lastError[i] # <<>>
    /\ Len(sent[i]) = 3
    /\ Len(delays[i]) = 2
    /\ waited[i] = Sum(delays[i])

====
